---------------------------- MODULE Spec2Model ----------------------------
(***************************************************************************)
(* State-machine model of the NWB inspector's check engine:                *)
(*   configure_checks, run_checks, inspect_nwb and inspect_all of          *)
(*   src/nwbinspector/nwbinspector.py.                                     *)
(* Generators are modelled step by step: one action per statement group    *)
(* between two observable points (a yield, a raise, a resource change).    *)
(***************************************************************************)
EXTENDS Integers, Sequences, FiniteSets, TLC

(***************************************************************************)
(* Bounds of the model.                                                    *)
(***************************************************************************)
\* longest sequence of messages one check invocation returns
MaxSeq == 2
\* number of objects held by the container handed to run_checks (SpecRun)
MaxObjects == 2
\* number of objects in a file read by inspect_nwb (Spec)
MaxFileObjects == 1
\* number of *.nwb files a directory holds
MaxFiles == 2
\* number of validation errors pynwb.validate reports for one file
MaxValErr == 1
\* number of names in a select / ignore list
MaxSelect == 1
\* number of keys of a config (SpecCfg) and names under one key
MaxCfgKeys == 2
MaxCfgNames == 1
\* number of keys of a config handed to inspect_all (Spec)
MaxRunCfgKeys == 1
\* number of messages inspect_all hands to inspect_all_cli (SpecCli)
MaxMessages == 3
\* calls of inspect_all the process has made before the one under way
MaxEarlierRuns == 2

(***************************************************************************)
(* Enumerations and the type hierarchy.                                    *)
(***************************************************************************)
\* Importance members the CLI accepts as a threshold and register_check
\* accepts as an importance.
CheckImportances == {"CRITICAL", "BEST_PRACTICE_VIOLATION", "BEST_PRACTICE_SUGGESTION"}

\* Importance.<member>.value
ImportanceValue(importance) ==
    CASE importance = "ERROR" -> 4
      [] importance = "PYNWB_VALIDATION" -> 3
      [] importance = "CRITICAL" -> 2
      [] importance = "BEST_PRACTICE_VIOLATION" -> 1
      [] importance = "BEST_PRACTICE_SUGGESTION" -> 0

\* the neurodata types of the objects a file holds
ObjectTypes == {"TimeSeries", "OptogeneticSeries", "DynamicTable"}

\* issubclass(t, u): a class is a subclass of itself; OptogeneticSeries
\* derives from TimeSeries; DynamicTable is unrelated to both.
IsSubclassExact(t, u) == t = u
IsSubclass(t, u) == t = u \/ (t = "OptogeneticSeries" /\ u = "TimeSeries")

(***************************************************************************)
(* The registry: available_checks as the check modules leave it.           *)
(***************************************************************************)
RegisteredChecks ==
    << [name |-> "check_regular_timestamps",
        importance |-> "BEST_PRACTICE_VIOLATION",
        neurodata_type |-> "TimeSeries"],
       [name |-> "check_data_orientation",
        importance |-> "CRITICAL",
        neurodata_type |-> "TimeSeries"] >>

CheckNames == {RegisteredChecks[i].name : i \in 1..Len(RegisteredChecks)}

\* names a config may list: the registered ones and one that matches nothing
ConfigNames == CheckNames \cup {"check_not_registered"}

\* a module of checks outside the package: executing it registers its check
ModuleChecks(module) ==
    IF module = "my_checks"
    THEN << [name |-> "check_from_module",
             importance |-> "CRITICAL",
             neurodata_type |-> "DynamicTable"] >>
    ELSE <<>>

\* the modules argument: None or a list of module names (modules or [])
ModuleLists == {<<>>, <<"my_checks">>}

\* register_check: the decorated function is appended to the catalog
register_check(registry, check) == Append(registry, check)

\* importlib.import_module of a module the process has not loaded yet runs
\* its body: each decorated function is registered, in order
RECURSIVE RegisterAll(_, _)
RegisterAll(registry, new) ==
    IF new = <<>> THEN registry
    ELSE RegisterAll(register_check(registry, Head(new)), Tail(new))

\* lines 178-179: the modules are imported in the order of the list
RECURSIVE ImportAll(_, _)
ImportAll(modules, registry) ==
    IF modules = <<>> THEN registry
    ELSE ImportAll(Tail(modules), RegisterAll(registry, ModuleChecks(Head(modules))))

(***************************************************************************)
(* Optional arguments (None or a value).                                   *)
(***************************************************************************)
NoneArg == [is_none |-> TRUE, names |-> {}]
SomeArg(S) == [is_none |-> FALSE, names |-> S]
NoConfig == [is_none |-> TRUE, items |-> <<>>]
SomeConfig(items) == [is_none |-> FALSE, items |-> items]

\* truthiness of an optional list: None and the empty list are falsy
Truthy(arg) == ~arg.is_none /\ arg.names # {}

(***************************************************************************)
(* InspectorMessage.                                                       *)
(***************************************************************************)
NoFile == 0
NoObject == 0

FindingText == <<"finding_1", "finding_2", "finding_3", "finding_4">>

\* the message a check returns for object j, k-th of its findings
CheckMessage(check, j, k) ==
    [message |-> FindingText[k],
     importance |-> check.importance,
     check_function_name |-> check.name,
     object_name |-> j,
     file |-> NoFile]

\* run_checks' message for a check that raised
ErrorMessageWrongName(check) ==
    [message |-> "traceback",
     importance |-> "ERROR",
     check_function_name |-> "run_checks",
     object_name |-> NoObject,
     file |-> NoFile]
ErrorMessage(check) ==
    [message |-> "traceback",
     importance |-> "ERROR",
     check_function_name |-> check.name,
     object_name |-> NoObject,
     file |-> NoFile]

\* inspect_nwb's message for one validation error
ValidationMessage(k) ==
    [message |-> FindingText[k],
     importance |-> "PYNWB_VALIDATION",
     check_function_name |-> "validation_error",
     object_name |-> NoObject,
     file |-> NoFile]

\* inspect_nwb's message for a failed io.read()
ReadErrorMessage ==
    [message |-> "traceback",
     importance |-> "ERROR",
     check_function_name |-> "read_exception",
     object_name |-> NoObject,
     file |-> NoFile]

(***************************************************************************)
(* What a check invocation gives back.                                     *)
(***************************************************************************)
NoneOutput == [kind |-> "none", value |-> <<>>]
MessageOutput(m) == [kind |-> "message", value |-> <<m>>]
SequenceOutput(ms) == [kind |-> "sequence", value |-> ms]

\* a str value is the sequence of its characters; a character is a str of
\* length one
StrValue(chars) == [str |-> chars]
BareString == StrValue(<<"s", "t">>)
StringOutput(string) == [kind |-> "string", value |-> string]

\* iterating a str gives its characters, each a str
Characters(string) == [k \in 1..Len(string.str) |-> StrValue(<<string.str[k]>>)]

\* the values check(object j) may return when it does not raise
ReturnValues(check, j) ==
    {NoneOutput, MessageOutput(CheckMessage(check, j, 1))}
    \cup {SequenceOutput([k \in 1..n |-> CheckMessage(check, j, k)]) : n \in 0..MaxSeq}

\* run_checks lines 216-221: what is yielded for an output, in order
NormalizeFirstOnly(output) ==
    IF output.kind = "none" \/ output.value = <<>> THEN <<>> ELSE <<output.value[1]>>
Normalize(output) ==
    CASE output.kind = "none" -> <<>>
      [] output.kind = "sequence" -> output.value
      [] output.kind = "string" -> Characters(output.value)
      [] output.kind = "message" -> <<output.value[1]>>


(***************************************************************************)
(* Inputs drawn from bounded sets.                                         *)
(***************************************************************************)
NameSets(names, n) == {S \in SUBSET names : Cardinality(S) <= n}

\* select / ignore: None, or a list of at most MaxSelect registered names
OptionalNames == {NoneArg} \cup {SomeArg(S) : S \in NameSets(CheckNames, MaxSelect)}

\* keys of a config document: an importance name or SKIP
ConfigKeys == CheckImportances \cup {"SKIP"}

\* the names Importance[...] accepts: the members of the enumeration
ImportanceNames == CheckImportances \cup {"PYNWB_VALIDATION", "ERROR"}

\* keys of any dict handed to configure_checks: those of a config document and
\* one that is neither an importance name nor SKIP
AnyKeys == ConfigKeys \cup {"NOT_AN_IMPORTANCE"}

\* a config is a dict: (key, list of names) items in insertion order, keys distinct
ConfigsWith(keys, maxKeys, names, maxNames) ==
    LET Items == [importance_name : keys, func_names : NameSets(names, maxNames)]
        Seqs == UNION {[1..k -> Items] : k \in 0..maxKeys}
    IN  {c \in Seqs : \A a, b \in 1..Len(c) : a # b => c[a].importance_name # c[b].importance_name}

\* the configs that have the shape of a config document
ConfigsOf(maxKeys, names, maxNames) == ConfigsWith(ConfigKeys, maxKeys, names, maxNames)

\* the files a directory may hold are f<n>.nwb, n drawn from FileNumbers
FileNumbers == <<2, 10, 1, 3>>
FileIds == {FileNumbers[i] : i \in 1..MaxFiles}

\* sequences without repetition enumerating the set S (glob's possible results)
Orderings(S) ==
    {q \in [1..Cardinality(S) -> S] : \A a, b \in 1..Cardinality(S) : a # b => q[a] # q[b]}

\* the path argument: a directory with its *.nwb files, one file, or neither
Paths ==
    {[kind |-> "dir", files |-> S] : S \in SUBSET FileIds}
    \cup {[kind |-> "file", files |-> {FileNumbers[1]}]}
    \cup {[kind |-> "missing", files |-> {}]}

\* the objects of a container: a sequence of neurodata types
ObjectLists(n) == UNION {[1..k -> ObjectTypes] : k \in 0..n}

(***************************************************************************)
(* State.                                                                  *)
(***************************************************************************)
VARIABLES
    available_checks,  \* the registry: sequence of check records (shared, mutable)
    base_checks,       \* available_checks as it was when the operation was called
    args,              \* arguments of the call under way
    raising,           \* names of the checks that raise when invoked
    pc,                \* position of the generator under way
    nwbfiles,          \* inspect_all: sorted list of files
    file_index,        \* inspect_all: position in nwbfiles (0 before the first)
    checks,            \* inspect_all: the list named checks (indices into the registry)
    handles,           \* files whose NWBHDF5IO handle is open
    opened,            \* files opened so far in this call
    val_errors,        \* inspect_nwb: validation errors, [found, yielded]
    nwbfile,           \* inspect_nwb: local nwbfile, [bound, objects]
    nwb_checks,        \* inspect_nwb: local checks after select/ignore/threshold
    rc_pos,            \* run_checks: number of (check, object) pairs gone through
    pending,           \* run_checks: elements of the current output not yet yielded
    calls,             \* log of the check invocations: [check, object, output]
    yielded,           \* messages the generator under way has yielded
    raisedErr,         \* exception that escaped to the consumer, or "none"
    emitted,           \* inspect_all: the files whose messages it has yielded, in
                       \* order, each unbroken run of one file's messages once
    returns_str,       \* names of the checks that return a bare string
    previous,          \* earlier inspect_all calls of the process: [config, registry]
    messages,          \* inspect_all_cli: list(inspect_all(...))
    json_file,         \* inspect_all_cli: what json.dump wrote
    organized_results, \* inspect_all_cli: organize_messages_by_file(messages)
    formatted_results, \* inspect_all_cli: format_organized_results_output(...)
    report_file,       \* the file at report_file_path: [exists, content]
    cli_args           \* inspect_all_cli: json_file_path and report_file_path
                       \* (given or None) and the --overwrite flag

vars == <<available_checks, base_checks, args, raising, pc, nwbfiles, file_index,
          checks, handles, opened, val_errors, nwbfile, nwb_checks, rc_pos, pending,
          calls, yielded, raisedErr, emitted, returns_str, previous, messages,
          json_file, organized_results, formatted_results, report_file, cli_args>>

cfgVars == <<available_checks, base_checks, args, pc, checks>>
allVars == <<nwbfiles, file_index, handles, opened, val_errors, raisedErr, emitted>>
rcVars == <<nwbfile, nwb_checks, rc_pos, pending, calls, yielded, raising>>
cliVars == <<messages, json_file, organized_results, formatted_results, report_file,
             cli_args>>
restVars == <<returns_str, previous>>

DefaultArgs ==
    [path |-> [kind |-> "dir", files |-> {}],
     select |-> NoneArg,
     ignore |-> NoneArg,
     config |-> NoConfig,
     importance_threshold |-> "BEST_PRACTICE_SUGGESTION",
     modules |-> <<>>]

\* inspect_all_cli lines 108-119: no json file, no report file, no overwrite
DefaultCliArgs == [json_file_path |-> FALSE, report_file_path |-> FALSE, overwrite |-> FALSE]

Unbound == [bound |-> FALSE, objects |-> <<>>]
Bound(objects) == [bound |-> TRUE, objects |-> objects]

\* the list object available_checks itself, or a list built from it
Aliased == [aliased |-> TRUE, list |-> <<>>]
NewList(l) == [aliased |-> FALSE, list |-> l]
ChecksList(c) == IF c.aliased THEN [i \in 1..Len(available_checks) |-> i] ELSE c.list

\* values of the variables an operation does not use
IdleAll ==
    /\ nwbfiles = <<>> /\ file_index = 0 /\ handles = {} /\ opened = {}
    /\ val_errors = [found |-> 0, yielded |-> 0]
    /\ raisedErr = "none"
    /\ emitted = <<>>
IdleRun ==
    /\ nwbfile = Unbound /\ nwb_checks = <<>> /\ rc_pos = 0 /\ pending = <<>>
    /\ calls = <<>> /\ yielded = <<>>
IdleCli ==
    /\ messages = <<>> /\ json_file = <<>> /\ organized_results = <<>>
    /\ formatted_results = <<>>
    /\ report_file = [exists |-> FALSE, content |-> <<>>]
    /\ cli_args = DefaultCliArgs
IdleRest ==
    /\ returns_str = {} /\ previous = <<>>

(***************************************************************************)
(* configure_checks (lines 191-200).                                       *)
(***************************************************************************)
\* line 198: Importance[importance_name] raises KeyError for a name that is
\* no member of Importance; it is evaluated for an item that lists the check
\* under a key other than SKIP
RaisesKeyError(check, item) ==
    /\ check.name \in item.func_names
    /\ item.importance_name # "SKIP"
    /\ item.importance_name \notin ImportanceNames

\* the inner loop over config.items() for one check, from item k on: a name
\* listed under SKIP continues with the next item, a name listed under an
\* importance gets it assigned; the loop is left where line 198 raises
RECURSIVE ApplyItemsToAll(_, _, _)
ApplyItemsToAll(check, items, k) ==
    IF k > Len(items) \/ RaisesKeyError(check, items[k]) THEN check
    ELSE IF items[k].importance_name \notin {"SKIP", "NOT_AN_IMPORTANCE"}
         THEN ApplyItemsToAll([check EXCEPT !.importance = items[k].importance_name], items, k + 1)
         ELSE ApplyItemsToAll(check, items, k + 1)
RECURSIVE ApplyItems(_, _, _)
ApplyItems(check, items, k) ==
    IF k > Len(items) \/ RaisesKeyError(check, items[k]) THEN check
    ELSE IF check.name \in items[k].func_names /\ items[k].importance_name # "SKIP"
         THEN ApplyItems([check EXCEPT !.importance = items[k].importance_name], items, k + 1)
         ELSE ApplyItems(check, items, k + 1)

\* the first check of the list for which line 198 raises, 0 when there is none
FirstKeyError(items, registry) ==
    LET bad == {i \in 1..Len(registry) :
                   \E k \in 1..Len(items) : RaisesKeyError(registry[i], items[k])}
    IN  IF bad = {} THEN 0 ELSE CHOOSE i \in bad : \A j \in bad : i <= j

\* configure_checks working on copies of the checks: the registry is left as
\* it was
configure_checks_on_copies(items, registry) ==
    [registry |-> registry,
     raised |-> FirstKeyError(items, registry) # 0,
     checks_out |-> [i \in 1..Len(registry) |-> i]]

\* the registry after the call, whether it raised, and the list it returns:
\* checks_out.append(check) is the last statement of the outer loop body and
\* runs for every check; a KeyError leaves the checks after the one it was
\* raised for untouched
configure_checks(items, registry) ==
    LET stop == FirstKeyError(items, registry)
    IN  [registry |-> [i \in 1..Len(registry) |->
                          IF stop # 0 /\ i > stop THEN registry[i]
                          ELSE ApplyItems(registry[i], items, 1)],
         raised |-> stop # 0,
         checks_out |-> [i \in 1..Len(registry) |-> i]]

(***************************************************************************)
(* SpecCfg: configure_checks called on the registry.                       *)
(***************************************************************************)
\* base lists: the registered checks, alone or followed by one more check
\* registered under the name of the first
BaseLists == {RegisteredChecks, Append(RegisteredChecks, RegisteredChecks[1])}

\* a base list with any importance a configuration can have left on each check
Registries ==
    UNION {{[i \in 1..Len(base) |-> [base[i] EXCEPT !.importance = f[i]]] :
               f \in [1..Len(base) -> CheckImportances]} : base \in BaseLists}

InitCfg ==
    /\ available_checks \in Registries
    /\ base_checks = available_checks
    /\ \E c \in ConfigsWith(AnyKeys, MaxCfgKeys, ConfigNames, MaxCfgNames) :
          args = [DefaultArgs EXCEPT !.config = SomeConfig(c)]
    /\ raising = {}
    /\ pc = "cfg_call"
    /\ checks = Aliased
    /\ IdleAll
    /\ IdleRun
    /\ IdleCli
    /\ IdleRest

ConfigureChecks ==
    /\ pc = "cfg_call"
    /\ LET r == configure_checks(args.config.items, available_checks)
       IN  /\ available_checks' = r.registry
           /\ IF r.raised
              THEN /\ raisedErr' = "KeyError"
                   /\ pc' = "raised"
                   /\ UNCHANGED checks
              ELSE /\ checks' = NewList(r.checks_out)
                   /\ pc' = "cfg_done"
                   /\ UNCHANGED raisedErr
    /\ UNCHANGED <<base_checks, args>>
    /\ UNCHANGED <<nwbfiles, file_index, handles, opened, val_errors, emitted>>
    /\ UNCHANGED rcVars
    /\ UNCHANGED cliVars
    /\ UNCHANGED restVars

NextCfg == ConfigureChecks

SpecCfg == InitCfg /\ [][NextCfg]_vars

(***************************************************************************)
(* run_checks (lines 203-221).                                             *)
(***************************************************************************)
\* The two nested loops go through the (check, object) pairs check by check;
\* pair number p (from 1) is check PairCheck(p) of the list and object
\* PairObject(p) of nwbfile.objects.values().
NumPairs == Len(nwb_checks) * Len(nwbfile.objects)
PairCheck(p) == ((p - 1) \div Len(nwbfile.objects)) + 1
PairObject(p) == ((p - 1) % Len(nwbfile.objects)) + 1

\* line 206: issubclass(type(nwbfile_object), check_function.neurodata_type)
PairMatches(p) ==
    IsSubclass(nwbfile.objects[PairObject(p)],
               available_checks[nwb_checks[PairCheck(p)]].neurodata_type)

\* the first matching pair after pair p, 0 when the loops end without one
NextMatch(p) ==
    LET later == {q \in (p + 1)..NumPairs : PairMatches(q)}
    IN  IF later = {} THEN 0 ELSE CHOOSE q \in later : \A r \in later : q <= r

\* lines 207-215: the outputs the try statement can leave in output
TryCheck(check, j) ==
    IF check.name \in raising
    THEN {MessageOutput(ErrorMessage(check))}
    ELSE IF check.name \in returns_str
         THEN {StringOutput(BareString)}
         ELSE ReturnValues(check, j)

\* lines 204-215: advance to the next matching pair and invoke the check
Invoke ==
    /\ pc = "checks"
    /\ pending = <<>>
    /\ NextMatch(rc_pos) # 0
    /\ LET p == NextMatch(rc_pos)
           c == nwb_checks[PairCheck(p)]
       IN  /\ rc_pos' = p
           /\ \E output \in TryCheck(available_checks[c], PairObject(p)) :
                 /\ pending' = Normalize(output)
                 /\ calls' = Append(calls, [pos |-> PairCheck(p), check |-> c,
                                            object |-> PairObject(p), output |-> output])
    /\ UNCHANGED <<nwbfile, nwb_checks, yielded, raising>>
    /\ UNCHANGED cfgVars
    /\ UNCHANGED allVars
    /\ UNCHANGED cliVars
    /\ UNCHANGED restVars

\* lines 216-221: yield the next element of the output to the consumer
RunChecksYield ==
    /\ pc = "checks"
    /\ pending # <<>>
    /\ yielded' = Append(yielded, Head(pending))
    /\ pending' = Tail(pending)
    /\ UNCHANGED <<nwbfile, nwb_checks, rc_pos, calls, raising>>
    /\ UNCHANGED cfgVars
    /\ UNCHANGED allVars
    /\ UNCHANGED cliVars
    /\ UNCHANGED restVars

\* the loops end: the generator is exhausted
RunChecksReturn ==
    /\ pc = "checks"
    /\ pending = <<>>
    /\ NextMatch(rc_pos) = 0
    /\ pc' = "rc_done"
    /\ rc_pos' = NumPairs
    /\ UNCHANGED <<available_checks, base_checks, args, checks>>
    /\ UNCHANGED <<nwbfile, nwb_checks, pending, calls, yielded, raising>>
    /\ UNCHANGED allVars
    /\ UNCHANGED cliVars
    /\ UNCHANGED restVars

(***************************************************************************)
(* SpecRun: run_checks on a container and a list of checks.                *)
(***************************************************************************)
\* lists of registered checks in registry order, as select, ignore and the
\* threshold leave them
CheckLists ==
    UNION {{q \in Orderings(S) : \A a, b \in 1..Len(q) : a < b => q[a] < q[b]} :
              S \in SUBSET (1..Len(RegisteredChecks))}

InitRun ==
    /\ available_checks = RegisteredChecks
    /\ base_checks = RegisteredChecks
    /\ args = DefaultArgs
    /\ raising \in SUBSET CheckNames
    /\ pc = "checks"
    /\ checks = Aliased
    /\ IdleAll
    /\ nwbfile \in {Bound(objects) : objects \in ObjectLists(MaxObjects)}
    /\ nwb_checks \in CheckLists
    /\ rc_pos = 0
    /\ pending = <<>>
    /\ calls = <<>>
    /\ yielded = <<>>
    /\ IdleCli
    /\ IdleRest

NextRun == Invoke \/ RunChecksYield \/ RunChecksReturn

SpecRun == InitRun /\ [][NextRun]_vars

(***************************************************************************)
(* SpecStr: run_checks with check functions that return a bare string.     *)
(***************************************************************************)
InitStr ==
    /\ available_checks = RegisteredChecks
    /\ base_checks = RegisteredChecks
    /\ args = DefaultArgs
    /\ returns_str \in SUBSET CheckNames
    /\ raising \in SUBSET (CheckNames \ returns_str)
    /\ pc = "checks"
    /\ checks = Aliased
    /\ IdleAll
    /\ nwbfile \in {Bound(objects) : objects \in ObjectLists(MaxObjects)}
    /\ nwb_checks \in CheckLists
    /\ rc_pos = 0
    /\ pending = <<>>
    /\ calls = <<>>
    /\ yielded = <<>>
    /\ previous = <<>>
    /\ IdleCli

NextStr == Invoke \/ RunChecksYield \/ RunChecksReturn

SpecStr == InitStr /\ [][NextStr]_vars

(***************************************************************************)
(* inspect_all (lines 152-188) and inspect_nwb (lines 224-286).            *)
(***************************************************************************)
\* the decimal digits of the number in a file name (numbers below 100)
Digits(n) == IF n < 10 THEN <<n>> ELSE <<n \div 10, n % 10>>

\* f<a>.nwb sorts before f<b>.nwb as text: digit by digit, a prefix first
TextBefore(a, b) ==
    LET da == Digits(a)
        db == Digits(b)
    IN  \/ da[1] < db[1]
        \/ da[1] = db[1] /\ Len(da) < Len(db)
        \/ da[1] = db[1] /\ Len(da) = 2 /\ Len(db) = 2 /\ da[2] < db[2]

\* sorted(): the names in text order
RECURSIVE sorted(_)
sorted(q) ==
    IF q = <<>> THEN <<>>
    ELSE LET least == CHOOSE x \in {q[k] : k \in 1..Len(q)} :
                          \A y \in {q[k] : k \in 1..Len(q)} : x = y \/ TextBefore(x, y)
             IsOther(x) == x # least
         IN  <<least>> \o sorted(SelectSeq(q, IsOther))

\* the names ordered as plain text instead
natsorted_as_text(q) == sorted(q)

\* natsorted: f<n>.nwb names in ascending order of the number n
RECURSIVE natsorted(_)
natsorted(q) ==
    IF q = <<>> THEN <<>>
    ELSE LET least == CHOOSE x \in {q[k] : k \in 1..Len(q)} :
                          \A y \in {q[k] : k \in 1..Len(q)} : x <= y
             IsOther(x) == x # least
         IN  <<least>> \o natsorted(SelectSeq(q, IsOther))

\* line 188: a message of file f is yielded to the consumer of inspect_all
Emit(log, f) == IF log # <<>> /\ log[Len(log)] = f THEN log ELSE Append(log, f)

\* the file inspect_nwb is working on
CurrentFile == nwbfiles[file_index]

\* leaving the with block of line 264 closes the handle, on return and on raise
ExitWithLeak(open, f) == open
ExitWith(open, f) == open \ {f}

\* lines 278-281: select, or else ignore, when given and not empty
SelectChecks(list) ==
    LET Selected(c) == available_checks[c].name \in args.select.names
        NotIgnored(c) == available_checks[c].name \notin args.ignore.names
    IN  IF Truthy(args.select) THEN SelectSeq(list, Selected)
        ELSE IF Truthy(args.ignore) THEN SelectSeq(list, NotIgnored)
        ELSE list

\* lines 282-283: keep the checks whose importance is at least the threshold
ThresholdChecksStrict(list) ==
    LET Kept(c) == ImportanceValue(available_checks[c].importance)
                       > ImportanceValue(args.importance_threshold)
    IN  SelectSeq(list, Kept)
ThresholdChecks(list) ==
    LET Kept(c) == ImportanceValue(available_checks[c].importance)
                       >= ImportanceValue(args.importance_threshold)
    IN  SelectSeq(list, Kept)

\* line 285: inspector_message.file = nwbfile_path
StampFile(m, f) == [m EXCEPT !.file = f]

\* per-file locals of inspect_nwb and run_checks before the file is entered
ResetRun ==
    /\ nwbfile' = Unbound /\ nwb_checks' = <<>> /\ rc_pos' = 0 /\ pending' = <<>>
    /\ calls' = <<>> /\ yielded' = <<>> /\ raising' = {}
    /\ val_errors' = [found |-> 0, yielded |-> 0]

\* lines 161-171: the path is a directory, a file, or an error
ResolvePath ==
    /\ pc = "call"
    /\ \/ /\ args.path.kind = "missing"
          /\ raisedErr' = "ValueError"
          /\ pc' = "raised"
          /\ UNCHANGED nwbfiles
       \/ /\ args.path.kind # "missing"
          /\ \E found \in Orderings(args.path.files) : nwbfiles' = natsorted(found)
          /\ pc' = "configure"
          /\ UNCHANGED raisedErr
    /\ UNCHANGED <<available_checks, base_checks, args, checks>>
    /\ UNCHANGED <<file_index, handles, opened, val_errors, emitted>>
    /\ UNCHANGED rcVars
    /\ UNCHANGED cliVars
    /\ UNCHANGED restVars

\* lines 173-176
Configure ==
    /\ pc = "configure"
    /\ IF args.config.is_none
       THEN /\ checks' = Aliased
            /\ UNCHANGED available_checks
            /\ pc' = "import"
            /\ UNCHANGED raisedErr
       ELSE LET r == configure_checks(args.config.items, available_checks)
            IN  /\ available_checks' = r.registry
                /\ IF r.raised
                   THEN /\ raisedErr' = "KeyError"
                        /\ pc' = "raised"
                        /\ UNCHANGED checks
                   ELSE /\ checks' = NewList(r.checks_out)
                        /\ pc' = "import"
                        /\ UNCHANGED raisedErr
    /\ UNCHANGED <<base_checks, args>>
    /\ UNCHANGED <<nwbfiles, file_index, handles, opened, val_errors, emitted>>
    /\ UNCHANGED rcVars
    /\ UNCHANGED cliVars
    /\ UNCHANGED restVars

\* lines 178-179: the catalog grows by what the modules register; checks is
\* not assigned
ImportModules ==
    /\ pc = "import"
    /\ available_checks' = ImportAll(args.modules, available_checks)
    /\ pc' = "loop"
    /\ UNCHANGED <<base_checks, args, checks>>
    /\ UNCHANGED allVars
    /\ UNCHANGED rcVars
    /\ UNCHANGED cliVars
    /\ UNCHANGED restVars

\* lines 180-181: the next file's inspect_nwb generator is created and entered
NextFile ==
    /\ pc = "loop"
    /\ file_index < Len(nwbfiles)
    /\ file_index' = file_index + 1
    /\ pc' = "options"
    /\ ResetRun
    /\ UNCHANGED <<available_checks, base_checks, args, checks>>
    /\ UNCHANGED <<nwbfiles, handles, opened, raisedErr, emitted>>
    /\ UNCHANGED cliVars
    /\ UNCHANGED restVars

\* line 180: the loop over the files ends
Finish ==
    /\ pc = "loop"
    /\ file_index = Len(nwbfiles)
    /\ pc' = "done"
    /\ UNCHANGED <<available_checks, base_checks, args, checks>>
    /\ UNCHANGED allVars
    /\ UNCHANGED rcVars
    /\ UNCHANGED cliVars
    /\ UNCHANGED restVars

\* lines 257-263 (the threshold is a member of Importance)
CheckOptions ==
    /\ pc = "options"
    /\ IF ~args.ignore.is_none /\ ~args.select.is_none
       THEN /\ raisedErr' = "ValueError"
            /\ pc' = "raised"
       ELSE /\ pc' = "open"
            /\ UNCHANGED raisedErr
    /\ UNCHANGED <<available_checks, base_checks, args, checks>>
    /\ UNCHANGED <<nwbfiles, file_index, handles, opened, val_errors, emitted>>
    /\ UNCHANGED rcVars
    /\ UNCHANGED cliVars
    /\ UNCHANGED restVars

\* line 264: the handle is opened, or the constructor raises
OpenFile ==
    /\ pc = "open"
    /\ \/ /\ handles' = handles \cup {CurrentFile}
          /\ opened' = opened \cup {CurrentFile}
          /\ pc' = "validate"
          /\ UNCHANGED raisedErr
       \/ /\ raisedErr' = "OSError"
          /\ pc' = "raised"
          /\ UNCHANGED <<handles, opened>>
    /\ UNCHANGED <<available_checks, base_checks, args, checks>>
    /\ UNCHANGED <<nwbfiles, file_index, val_errors, emitted>>
    /\ UNCHANGED rcVars
    /\ UNCHANGED cliVars
    /\ UNCHANGED restVars

\* lines 265-266
Validate ==
    /\ pc = "validate"
    /\ \E n \in 0..MaxValErr : val_errors' = [found |-> n, yielded |-> 0]
    /\ pc' = "validation"
    /\ UNCHANGED <<available_checks, base_checks, args, checks>>
    /\ UNCHANGED <<nwbfiles, file_index, handles, opened, raisedErr, emitted>>
    /\ UNCHANGED rcVars
    /\ UNCHANGED cliVars
    /\ UNCHANGED restVars

\* lines 267-273: one validation error is yielded
YieldValidation ==
    /\ pc = "validation"
    /\ val_errors.yielded < val_errors.found
    /\ yielded' = Append(yielded, ValidationMessage(val_errors.yielded + 1))
    /\ val_errors' = [val_errors EXCEPT !.yielded = @ + 1]
    /\ emitted' = Emit(emitted, CurrentFile)
    /\ UNCHANGED <<available_checks, base_checks, args, checks>>
    /\ UNCHANGED <<nwbfiles, file_index, handles, opened, raisedErr, pc>>
    /\ UNCHANGED <<nwbfile, nwb_checks, rc_pos, pending, calls, raising>>
    /\ UNCHANGED cliVars
    /\ UNCHANGED restVars

\* lines 274-277: io.read() returns the file's objects, or raises and an ERROR
\* message is yielded
ReadFile ==
    /\ pc = "validation"
    /\ val_errors.yielded = val_errors.found
    /\ \/ /\ \E objects \in ObjectLists(MaxFileObjects) : nwbfile' = Bound(objects)
          /\ raising' \in SUBSET CheckNames
          /\ UNCHANGED <<yielded, emitted>>
       \/ /\ yielded' = Append(yielded, ReadErrorMessage)
          /\ emitted' = Emit(emitted, CurrentFile)
          /\ UNCHANGED <<nwbfile, raising>>
    /\ pc' = "filter"
    /\ UNCHANGED <<available_checks, base_checks, args, checks>>
    /\ UNCHANGED <<nwbfiles, file_index, handles, opened, val_errors, raisedErr>>
    /\ UNCHANGED <<nwb_checks, rc_pos, pending, calls>>
    /\ UNCHANGED cliVars
    /\ UNCHANGED restVars

\* lines 278-283
FilterChecks ==
    /\ pc = "filter"
    /\ nwb_checks' = ThresholdChecks(SelectChecks(ChecksList(checks)))
    /\ pc' = "run"
    /\ UNCHANGED <<available_checks, base_checks, args, checks>>
    /\ UNCHANGED allVars
    /\ UNCHANGED <<nwbfile, rc_pos, pending, calls, yielded, raising>>
    /\ UNCHANGED cliVars
    /\ UNCHANGED restVars

\* line 284: run_checks(nwbfile, ...) reads the local nwbfile, which is not
\* bound when io.read() raised
StartRunChecks ==
    /\ pc = "run"
    /\ IF nwbfile.bound
       THEN /\ pc' = "checks"
            /\ UNCHANGED <<handles, raisedErr>>
       ELSE /\ raisedErr' = "UnboundLocalError"
            /\ handles' = ExitWith(handles, CurrentFile)
            /\ pc' = "raised"
    /\ UNCHANGED <<available_checks, base_checks, args, checks>>
    /\ UNCHANGED <<nwbfiles, file_index, opened, val_errors, emitted>>
    /\ UNCHANGED rcVars
    /\ UNCHANGED cliVars
    /\ UNCHANGED restVars

\* lines 216-221, 285-286 and 188: the next element of the output is stamped
\* with the file and yielded
YieldCheckMessage ==
    /\ pc = "checks"
    /\ pending # <<>>
    /\ yielded' = Append(yielded, StampFile(Head(pending), CurrentFile))
    /\ emitted' = Emit(emitted, CurrentFile)
    /\ pending' = Tail(pending)
    /\ UNCHANGED <<nwbfile, nwb_checks, rc_pos, calls, raising>>
    /\ UNCHANGED cfgVars
    /\ UNCHANGED <<nwbfiles, file_index, handles, opened, val_errors, raisedErr>>
    /\ UNCHANGED cliVars
    /\ UNCHANGED restVars

\* run_checks is exhausted: inspect_nwb leaves the with block and returns
FinishFile ==
    /\ pc = "checks"
    /\ pending = <<>>
    /\ NextMatch(rc_pos) = 0
    /\ handles' = ExitWith(handles, CurrentFile)
    /\ pc' = "loop"
    /\ UNCHANGED <<available_checks, base_checks, args, checks>>
    /\ UNCHANGED <<nwbfiles, file_index, opened, val_errors, raisedErr, emitted>>
    /\ UNCHANGED rcVars
    /\ UNCHANGED cliVars
    /\ UNCHANGED restVars

(***************************************************************************)
(* Spec: one call of inspect_all, consumed to its end.                     *)
(***************************************************************************)
RunConfigs ==
    {NoConfig} \cup {SomeConfig(c) : c \in ConfigsOf(MaxRunCfgKeys, CheckNames, MaxCfgNames)}

Init ==
    /\ available_checks = RegisteredChecks
    /\ base_checks = RegisteredChecks
    /\ args \in [path : Paths, select : OptionalNames, ignore : OptionalNames,
                 config : RunConfigs, importance_threshold : CheckImportances,
                 modules : {<<>>}]
    /\ raising = {}
    /\ pc = "call"
    /\ checks = Aliased
    /\ IdleAll
    /\ IdleRun
    /\ IdleCli
    /\ IdleRest

Next ==
    \/ ResolvePath \/ Configure \/ ImportModules \/ NextFile \/ Finish
    \/ CheckOptions \/ OpenFile \/ Validate \/ YieldValidation \/ ReadFile
    \/ FilterChecks \/ StartRunChecks \/ Invoke \/ YieldCheckMessage \/ FinishFile

Spec == Init /\ [][Next]_vars

(***************************************************************************)
(* SpecMod: one call of inspect_all on a file, with or without modules to  *)
(* import.                                                                 *)
(***************************************************************************)
InitMod ==
    /\ available_checks = RegisteredChecks
    /\ base_checks = RegisteredChecks
    /\ args \in [path : {p \in Paths : p.kind # "dir"},
                 select : OptionalNames, ignore : OptionalNames,
                 config : RunConfigs, importance_threshold : CheckImportances,
                 modules : ModuleLists]
    /\ raising = {}
    /\ pc = "call"
    /\ checks = Aliased
    /\ IdleAll
    /\ IdleRun
    /\ IdleCli
    /\ IdleRest

SpecMod == InitMod /\ [][Next]_vars

(***************************************************************************)
(* SpecRerun: successive calls of inspect_all in one process, each on a    *)
(* directory without files and with a config of its own. available_checks  *)
(* is a module-level list: it lives as long as the process.                *)
(***************************************************************************)
\* the generator of the call under way is exhausted and inspect_all is
\* called again: its locals are new, the registry is what the calls before
\* left
InspectAgain ==
    /\ pc = "done"
    /\ Len(previous) < MaxEarlierRuns
    /\ previous' = Append(previous, [config |-> args.config, registry |-> available_checks])
    /\ \E c \in RunConfigs : args' = [DefaultArgs EXCEPT !.config = c]
    /\ base_checks' = available_checks
    /\ checks' = Aliased
    /\ nwbfiles' = <<>>
    /\ file_index' = 0
    /\ pc' = "call"
    /\ UNCHANGED <<available_checks, returns_str>>
    /\ UNCHANGED <<handles, opened, val_errors, raisedErr, emitted>>
    /\ UNCHANGED rcVars
    /\ UNCHANGED cliVars

InitRerun ==
    /\ available_checks = RegisteredChecks
    /\ base_checks = RegisteredChecks
    /\ \E c \in RunConfigs : args = [DefaultArgs EXCEPT !.config = c]
    /\ raising = {}
    /\ pc = "call"
    /\ checks = Aliased
    /\ IdleAll
    /\ IdleRun
    /\ IdleCli
    /\ IdleRest

NextRerun == ResolvePath \/ Configure \/ ImportModules \/ Finish \/ InspectAgain

SpecRerun == InitRerun /\ [][NextRerun]_vars

(***************************************************************************)
(* inspect_all_cli after inspect_all (lines 140-149), with                 *)
(* InspectorOutputJSONEncoder (lines 28-35), organize_messages_by_file     *)
(* (lines 38-49), and format_organized_results_output and save_report of   *)
(* inspector_tools.py.                                                     *)
(***************************************************************************)
\* Severity.<member>.value
SeverityNames == {"HIGH", "LOW", "NO_SEVERITY"}
SeverityValue(severity) ==
    CASE severity = "HIGH" -> 2
      [] severity = "LOW" -> 1
      [] severity = "NO_SEVERITY" -> 0

\* a member of an Enum: it has a name and a value, and is neither of them
ImportanceMember(n) == [enum |-> "Importance", name |-> n, value |-> ImportanceValue(n)]
SeverityMember(n) == [enum |-> "Severity", name |-> n, value |-> SeverityValue(n)]
ImportanceMembers == {ImportanceMember(n) : n \in ImportanceNames}
SeverityMembers == {SeverityMember(n) : n \in SeverityNames}

\* Importance[name], Severity[name]
ImportanceByName(n) == CHOOSE m \in ImportanceMembers : m.name = n
SeverityByName(n) == CHOOSE m \in SeverityMembers : m.name = n

\* the Path objects the messages of inspect_all are stamped with: f2.nwb, f10.nwb
ReportFiles == {2, 10}

\* the message of lines 268-273: its file is not set
CliValidationMessage ==
    [message |-> "", importance |-> ImportanceMember("PYNWB_VALIDATION"),
     severity |-> SeverityMember("NO_SEVERITY"), check_function_name |-> "validation_error",
     object_type |-> "None", object_name |-> "None", location |-> "/", file |-> NoFile]

\* the message of a check, stamped by line 285
CliCheckMessage(f, importance, severity) ==
    [message |-> "", importance |-> ImportanceMember(importance),
     severity |-> SeverityMember(severity),
     check_function_name |-> IF importance = "CRITICAL" THEN "check_data_orientation"
                             ELSE "check_regular_timestamps",
     object_type |-> "TimeSeries", object_name |-> "test_time_series",
     location |-> "/acquisition/", file |-> f]

\* the message of lines 211-215 for a check that raised, stamped by line 285
CliErrorMessage(f) ==
    [message |-> "", importance |-> ImportanceMember("ERROR"),
     severity |-> SeverityMember("NO_SEVERITY"), check_function_name |-> "check_data_orientation",
     object_type |-> "None", object_name |-> "None", location |-> "None", file |-> f]

MessageShapes ==
    {CliValidationMessage}
    \cup {CliErrorMessage(f) : f \in ReportFiles}
    \cup {CliCheckMessage(f, "CRITICAL", "LOW") : f \in ReportFiles}
    \cup {CliCheckMessage(f, "CRITICAL", "HIGH") : f \in ReportFiles}
    \cup {CliCheckMessage(f, "BEST_PRACTICE_VIOLATION", "LOW") : f \in ReportFiles}

\* list(inspect_all(...)): the k-th message carries the k-th text
MessageLists ==
    UNION {{[k \in 1..n |-> [q[k] EXCEPT !.message = FindingText[k]]] :
               q \in [1..n -> MessageShapes]} : n \in 0..MaxMessages}

\* --- InspectorOutputJSONEncoder and json.dump (lines 28-35, 140-142) ---
\* default(o) for an Enum member: its name
EncodeEnum(member) == member.name

\* a message is encoded as its __dict__; the values that are Enum members go
\* through default(); None (no file) is written as null
EncodeMessage(m) ==
    [m EXCEPT !.importance = EncodeEnum(m.importance), !.severity = EncodeEnum(m.severity)]

\* default(o) for a Path object ends in super().default(o), which raises TypeError
Serializable(m) == m.file = NoFile

FirstUnserializable(ms) ==
    LET bad == {k \in 1..Len(ms) : ~Serializable(ms[k])}
    IN  IF bad = {} THEN 0 ELSE CHOOSE k \in bad : \A j \in bad : k <= j

\* what json.dump may have written to the file when it returns or raises: the
\* whole list, or when it raises nothing or the objects before the failing
\* one, as the encoder in use produces its output
json_dump(ms) ==
    LET stop == FirstUnserializable(ms)
        Encoded(n) == [k \in 1..n |-> EncodeMessage(ms[k])]
    IN  IF stop = 0
        THEN {[raised |-> FALSE, written |-> Encoded(Len(ms))]}
        ELSE {[raised |-> TRUE, written |-> <<>>],
              [raised |-> TRUE, written |-> Encoded(stop - 1)]}

\* --- organize_messages_by_file (lines 38-49) ---
\* sorted(..., key=lambda x: -key): descending key, equal keys in input order;
\* q is a sequence of [key, item]
RECURSIVE SortDescending(_)
SortDescending(q) ==
    IF q = <<>> THEN <<>>
    ELSE LET first == CHOOSE i \in 1..Len(q) :
                          /\ \A j \in 1..Len(q) : q[j].key <= q[i].key
                          /\ \A j \in 1..(i - 1) : q[j].key < q[i].key
             rest == [j \in 1..(Len(q) - 1) |-> IF j < first THEN q[j] ELSE q[j + 1]]
         IN  <<q[first].item>> \o SortDescending(rest)

\* line 47: key=lambda x: -x.severity.value
BySeverity(ms) ==
    SortDescending([k \in 1..Len(ms) |-> [key |-> ms[k].severity.value, item |-> ms[k]]])

\* line 44: sorted(set(importances), key=lambda x: -x.value)
ByImportanceValue(S) ==
    LET q == CHOOSE o \in Orderings(S) : TRUE
    IN  SortDescending([k \in 1..Len(q) |-> [key |-> q[k].value, item |-> q[k]]])

\* line 39: sorted(set(files)); None and a Path cannot be compared (TypeError),
\* Paths compare as text
FilesOf(ms) == {ms[k].file : k \in 1..Len(ms)}
Comparable(files) == NoFile \notin files \/ files = {NoFile}
SortedFiles(files) ==
    IF files = {NoFile} THEN <<NoFile>> ELSE sorted(CHOOSE o \in Orderings(files) : TRUE)

\* the dict out as the sequence of its items: [file, buckets], buckets the
\* items of out[file]: [importance, check_results]
organize_messages_by_file(ms) ==
    LET files == FilesOf(ms)
        order == SortedFiles(files)
        FileMessages(f) == LET IsOfFile(m) == m.file = f IN SelectSeq(ms, IsOfFile)
        Bucket(fm, importance) ==
            LET IsOfImportance(m) == m.importance = importance
            IN  [importance |-> importance,
                 check_results |-> BySeverity(SelectSeq(fm, IsOfImportance))]
        Buckets(fm) ==
            LET levels == ByImportanceValue({fm[k].importance : k \in 1..Len(fm)})
            IN  [i \in 1..Len(levels) |-> Bucket(fm, levels[i])]
    IN  IF ~Comparable(files)
        THEN [raised |-> TRUE, out |-> <<>>]
        ELSE [raised |-> FALSE,
              out |-> [i \in 1..Len(order) |->
                          [file |-> order[i], buckets |-> Buckets(FileMessages(order[i]))]]]

\* --- format_organized_results_output (inspector_tools.py lines 34-63) ---
\* one appended string: the template it was built from, the number it starts
\* with, the file it names and the values it shows, in order
Line(template, number, file, fields) ==
    [template |-> template, number |-> number, file |-> file, fields |-> fields]

\* line 44: importance_level.name.replace("_", " ")
ImportanceString(importance_level) ==
    CASE importance_level.name = "ERROR" -> "ERROR"
      [] importance_level.name = "PYNWB_VALIDATION" -> "PYNWB VALIDATION"
      [] importance_level.name = "CRITICAL" -> "CRITICAL"
      [] importance_level.name = "BEST_PRACTICE_VIOLATION" -> "BEST PRACTICE VIOLATION"
      [] importance_level.name = "BEST_PRACTICE_SUGGESTION" -> "BEST PRACTICE SUGGESTION"

\* == between a member of an Enum and a str: a member equals only itself
EnumEqualsStr(member, string) == FALSE

\* line 48: importance_level in ["ERROR", "PYNWB_VALIDATION"]
InAdministrativeList(importance_level) ==
    \E string \in {"ERROR", "PYNWB_VALIDATION"} : EnumEqualsStr(importance_level, string)

\* lines 50-53 and 56-60
AdministrativeLine(number, r) ==
    Line("administrative", number, NoFile,
         <<r.object_type, r.location, r.check_function_name, r.message>>)
BestPracticeLine(number, r) ==
    Line("best_practice", number, NoFile,
         <<r.object_type, r.object_name, r.location, r.check_function_name, r.message>>)

RECURSIVE Concat(_)
Concat(qs) == IF qs = <<>> THEN <<>> ELSE Head(qs) \o Concat(Tail(qs))

\* lines 43-60 for the importance_index-th bucket of the nwbfile_index-th file
FormatBucket(nwbfile_index, importance_index, bucket) ==
    <<Line("importance", <<>>, NoFile, <<ImportanceString(bucket.importance)>>),
      Line("importance_underline", <<>>, NoFile, <<ImportanceString(bucket.importance)>>)>>
    \o [check_index \in 1..Len(bucket.check_results) |->
           IF InAdministrativeList(bucket.importance)
           THEN AdministrativeLine(<<nwbfile_index, importance_index, check_index>>,
                                   bucket.check_results[check_index])
           ELSE BestPracticeLine(<<nwbfile_index, importance_index, check_index>>,
                                 bucket.check_results[check_index])]

\* lines 38-62 for the nwbfile_index-th file
FormatFile(nwbfile_index, entry, num_nwbfiles) ==
    <<Line("NWBFile", <<>>, entry.file, <<>>),
      Line("NWBFile_underline", <<>>, entry.file, <<>>)>>
    \o Concat([importance_index \in 1..Len(entry.buckets) |->
                  FormatBucket(nwbfile_index, importance_index, entry.buckets[importance_index])])
    \o (IF nwbfile_index # num_nwbfiles THEN <<Line("blank_lines", <<>>, NoFile, <<>>)>> ELSE <<>>)

format_organized_results_output(organized) ==
    Concat([nwbfile_index \in 1..Len(organized) |->
               FormatFile(nwbfile_index, organized[nwbfile_index], Len(organized))])

\* --- save_report (inspector_tools.py lines 139-146) ---
\* the file at report_file_path after the call, and whether it raised
save_report_unguarded(file, formatted, overwrite_flag) ==
    [raised |-> FALSE, file |-> [exists |-> TRUE, content |-> formatted]]
save_report(file, formatted, overwrite_flag) ==
    IF file.exists /\ ~overwrite_flag
    THEN [raised |-> TRUE, file |-> file]
    ELSE [raised |-> FALSE, file |-> [exists |-> TRUE, content |-> formatted]]

\* --- inspect_all_cli, lines 140-149 ---
\* lines 140-142
DumpJson ==
    /\ pc = "cli_json"
    /\ IF cli_args.json_file_path
       THEN \E r \in json_dump(messages) :
               /\ json_file' = r.written
               /\ IF r.raised
                  THEN raisedErr' = "TypeError" /\ pc' = "raised"
                  ELSE pc' = "cli_organize" /\ UNCHANGED raisedErr
       ELSE /\ pc' = "cli_organize"
            /\ UNCHANGED <<json_file, raisedErr>>
    /\ UNCHANGED <<messages, organized_results, formatted_results, report_file, cli_args>>
    /\ UNCHANGED <<available_checks, base_checks, args, checks>>
    /\ UNCHANGED <<nwbfiles, file_index, handles, opened, val_errors, emitted>>
    /\ UNCHANGED rcVars
    /\ UNCHANGED restVars

\* lines 144-145
Organize ==
    /\ pc = "cli_organize"
    /\ IF Len(messages) = 0
       THEN /\ pc' = "cli_done"
            /\ UNCHANGED <<organized_results, raisedErr>>
       ELSE LET r == organize_messages_by_file(messages)
            IN  /\ organized_results' = r.out
                /\ IF r.raised
                   THEN raisedErr' = "TypeError" /\ pc' = "raised"
                   ELSE pc' = "cli_format" /\ UNCHANGED raisedErr
    /\ UNCHANGED <<messages, json_file, formatted_results, report_file, cli_args>>
    /\ UNCHANGED <<available_checks, base_checks, args, checks>>
    /\ UNCHANGED <<nwbfiles, file_index, handles, opened, val_errors, emitted>>
    /\ UNCHANGED rcVars
    /\ UNCHANGED restVars

\* line 146
Format ==
    /\ pc = "cli_format"
    /\ formatted_results' = format_organized_results_output(organized_results)
    /\ pc' = "cli_report"
    /\ UNCHANGED <<messages, json_file, organized_results, report_file, cli_args>>
    /\ UNCHANGED <<available_checks, base_checks, args, checks>>
    /\ UNCHANGED allVars
    /\ UNCHANGED rcVars
    /\ UNCHANGED restVars

\* lines 147-149: the lines are printed, and saved when a report file is asked for
Report ==
    /\ pc = "cli_report"
    /\ IF cli_args.report_file_path
       THEN LET r == save_report(report_file, formatted_results, cli_args.overwrite)
            IN  /\ report_file' = r.file
                /\ IF r.raised
                   THEN raisedErr' = "FileExistsError" /\ pc' = "raised"
                   ELSE pc' = "cli_done" /\ UNCHANGED raisedErr
       ELSE /\ pc' = "cli_done"
            /\ UNCHANGED <<report_file, raisedErr>>
    /\ UNCHANGED <<messages, json_file, organized_results, formatted_results, cli_args>>
    /\ UNCHANGED <<available_checks, base_checks, args, checks>>
    /\ UNCHANGED <<nwbfiles, file_index, handles, opened, val_errors, emitted>>
    /\ UNCHANGED rcVars
    /\ UNCHANGED restVars

(***************************************************************************)
(* SpecCli: inspect_all_cli from the list of messages on.                  *)
(***************************************************************************)
\* what the file at report_file_path holds before the call, when it exists
OldReport == <<Line("old_report", <<>>, NoFile, <<>>)>>

InitCli ==
    /\ available_checks = RegisteredChecks
    /\ base_checks = RegisteredChecks
    /\ args = DefaultArgs
    /\ raising = {}
    /\ pc = "cli_json"
    /\ checks = Aliased
    /\ IdleAll
    /\ IdleRun
    /\ IdleRest
    /\ messages \in MessageLists
    /\ json_file = <<>>
    /\ organized_results = <<>>
    /\ formatted_results = <<>>
    /\ report_file \in {[exists |-> FALSE, content |-> <<>>],
                        [exists |-> TRUE, content |-> OldReport]}
    /\ cli_args \in [json_file_path : BOOLEAN, report_file_path : BOOLEAN, overwrite : BOOLEAN]

NextCli == DumpJson \/ Organize \/ Format \/ Report

SpecCli == InitCli /\ [][NextCli]_vars

(***************************************************************************)
(* Helpers of the properties.                                              *)
(***************************************************************************)
\* number of elements of sequence q that satisfy Test
CountIn(q, Test(_)) == Cardinality({k \in 1..Len(q) : Test(q[k])})

\* everything run_checks has produced: yielded, or computed and about to be
Stream == yielded \o pending

\* the messages an output stands for: nothing for None, the message, or the
\* elements of the sequence
Expected(output) == IF output.kind = "none" THEN <<>> ELSE output.value

RECURSIVE ExpectedStream(_)
ExpectedStream(log) ==
    IF log = <<>> THEN <<>>
    ELSE ExpectedStream(SubSeq(log, 1, Len(log) - 1)) \o Expected(log[Len(log)].output)

\* the class hierarchy, written out: the classes t is an instance of
ClassesOf(t) ==
    CASE t = "TimeSeries" -> {"TimeSeries"}
      [] t = "OptogeneticSeries" -> {"OptogeneticSeries", "TimeSeries"}
      [] t = "DynamicTable" -> {"DynamicTable"}

\* the (position in the check list, object) pairs run_checks must invoke
MatchingPairs ==
    {pr \in (1..Len(nwb_checks)) \X (1..Len(nwbfile.objects)) :
        available_checks[nwb_checks[pr[1]]].neurodata_type \in ClassesOf(nwbfile.objects[pr[2]])}

CalledPairs == {<<calls[k].pos, calls[k].object>> : k \in 1..Len(calls)}

CallName(call) == available_checks[call.check].name

(***************************************************************************)
(* C1. run_checks: a check that raises on a matching object produces       *)
(* exactly one message, of importance ERROR and named after the check; the *)
(* exception does not reach the consumer, and every later (check, object)  *)
(* pair is still evaluated.                                                *)
(***************************************************************************)
C1_RaisingCheckIsolated ==
    /\ raisedErr = "none"
    /\ \A n \in raising :
          LET IsErrorOf(m) == m.importance = "ERROR" /\ m.check_function_name = n
              IsCallOf(call) == CallName(call) = n
          IN  CountIn(Stream, IsErrorOf) = CountIn(calls, IsCallOf)
    /\ \A k \in 1..Len(Stream) :
          Stream[k].importance = "ERROR" => Stream[k].check_function_name \in raising
    /\ pc = "rc_done" => CalledPairs = MatchingPairs

\* a check raised, and a later pair was evaluated and reported
C1_Witness ==
    /\ pc = "rc_done"
    /\ \E k, l \in 1..Len(calls) :
          /\ k < l
          /\ CallName(calls[k]) \in raising
          /\ CallName(calls[l]) \notin raising
          /\ calls[l].output.kind = "message"
    /\ \E k \in 1..Len(yielded) : yielded[k].importance = "ERROR"

(***************************************************************************)
(* C2. run_checks: the messages yielded are exactly the return values of   *)
(* the invocations, in order: nothing for None, the message for a single   *)
(* message, the k elements in sequence order for a sequence of k.          *)
(***************************************************************************)
C2_OutputsYieldedInOrder == Stream = ExpectedStream(calls)

\* one run saw a None, a single message and a sequence of two
C2_Witness ==
    /\ pc = "rc_done"
    /\ \E k \in 1..Len(calls) : calls[k].output.kind = "none"
    /\ \E k \in 1..Len(calls) :
          calls[k].output.kind = "message" /\ CallName(calls[k]) \notin raising
    /\ \E k \in 1..Len(calls) :
          calls[k].output.kind = "sequence" /\ Len(calls[k].output.value) = 2
    /\ Len(yielded) = 3

(***************************************************************************)
(* C3. run_checks invokes a check on an object if and only if the object's *)
(* type is the check's neurodata_type or a subtype of it, and then exactly *)
(* once.                                                                   *)
(***************************************************************************)
C3_InvokedIffTypeMatches ==
    /\ CalledPairs \subseteq MatchingPairs
    /\ \A k \in 1..Len(calls) : calls[k].check = nwb_checks[calls[k].pos]
    /\ \A k, l \in 1..Len(calls) :
          k # l => <<calls[k].pos, calls[k].object>> # <<calls[l].pos, calls[l].object>>
    /\ pc = "rc_done" => CalledPairs = MatchingPairs

\* a container with an object of a subtype and one of an unrelated type
C3_Witness ==
    /\ pc = "rc_done"
    /\ nwbfile.objects = <<"DynamicTable", "OptogeneticSeries">>
    /\ Len(nwb_checks) = 2
    /\ Len(calls) = 2

(***************************************************************************)
(* C5. configure_checks: a check whose name is listed under SKIP is absent *)
(* from the returned list.                                                 *)
(***************************************************************************)
SkippedNames(items) ==
    UNION {items[k].func_names : k \in {x \in 1..Len(items) : items[x].importance_name = "SKIP"}}

C5_SkippedCheckAbsent ==
    pc = "cfg_done" =>
        \A k \in 1..Len(ChecksList(checks)) :
            available_checks[ChecksList(checks)[k]].name \notin SkippedNames(args.config.items)

(***************************************************************************)
(* C6. configure_checks changes the importance of exactly the checks named *)
(* under an importance key, to that level; checks the config does not name *)
(* keep their place, order and importance in the returned list, and names  *)
(* that match no check change nothing.                                     *)
(***************************************************************************)
\* the levels name n is listed under
ListedLevels(items, n) ==
    {items[k].importance_name :
        k \in {x \in 1..Len(items) : items[x].importance_name # "SKIP" /\ n \in items[x].func_names}}

NamedInConfig(items) == UNION {items[k].func_names : k \in 1..Len(items)}

C6_ConfigChangesOnlyNamed ==
    pc = "cfg_done" =>
        LET items == args.config.items
            NotNamed(i) == base_checks[i].name \notin NamedInConfig(items)
        IN  /\ Len(available_checks) = Len(base_checks)
            /\ \A i \in 1..Len(base_checks) :
                  /\ available_checks[i].name = base_checks[i].name
                  /\ available_checks[i].neurodata_type = base_checks[i].neurodata_type
                  /\ ListedLevels(items, base_checks[i].name) = {}
                        => available_checks[i].importance = base_checks[i].importance
                  /\ ListedLevels(items, base_checks[i].name) # {}
                        => available_checks[i].importance \in ListedLevels(items, base_checks[i].name)
            /\ SelectSeq(ChecksList(checks), NotNamed)
                  = SelectSeq([i \in 1..Len(base_checks) |-> i], NotNamed)

\* two checks sharing a name re-ranked, the third untouched, and a name that
\* matches nothing
C6_Witness ==
    /\ pc = "cfg_done"
    /\ "check_not_registered" \in NamedInConfig(args.config.items)
    /\ Len(base_checks) = 3
    /\ base_checks[3].name = base_checks[1].name
    /\ base_checks[1].importance = "BEST_PRACTICE_VIOLATION"
    /\ base_checks[3].importance = "BEST_PRACTICE_SUGGESTION"
    /\ available_checks[1].importance = "CRITICAL"
    /\ available_checks[3].importance = "CRITICAL"
    /\ base_checks[2].name \notin NamedInConfig(args.config.items)
    /\ available_checks[2] = base_checks[2]

(***************************************************************************)
(* Helpers of the properties about inspect_nwb and inspect_all.            *)
(***************************************************************************)
\* inspect_nwb has returned normally from the file at file_index
FileDone == pc = "loop" /\ file_index > 0

\* the name passes select (when given and not empty) or else ignore
PassesSelection(n) ==
    IF ~args.select.is_none /\ args.select.names # {} THEN n \in args.select.names
    ELSE IF ~args.ignore.is_none /\ args.ignore.names # {} THEN n \notin args.ignore.names
    ELSE TRUE

\* rank of an importance level, lowest first
LevelRank(level) ==
    CASE level = "BEST_PRACTICE_SUGGESTION" -> 1
      [] level = "BEST_PRACTICE_VIOLATION" -> 2
      [] level = "CRITICAL" -> 3

\* the registered checks (by index) that have an object of a matching type
\* in the file that was read
ApplicableChecks ==
    {c \in {ChecksList(checks)[k] : k \in 1..Len(ChecksList(checks))} :
        \E j \in 1..Len(nwbfile.objects) :
            available_checks[c].neurodata_type \in ClassesOf(nwbfile.objects[j])}

CalledChecks == {calls[k].check : k \in 1..Len(calls)}

RECURSIVE StampAll(_, _)
StampAll(ms, f) ==
    IF ms = <<>> THEN <<>> ELSE <<[Head(ms) EXCEPT !.file = f]>> \o StampAll(Tail(ms), f)

RECURSIVE ValidationMessages(_)
ValidationMessages(n) ==
    IF n = 0 THEN <<>> ELSE Append(ValidationMessages(n - 1), ValidationMessage(n))

C7_FileFailureContained ==
    /\ raisedErr \notin {"OSError", "UnboundLocalError"}
    /\ (file_index > 0 /\ pc \in {"filter", "run", "checks", "loop"} /\ ~nwbfile.bound) =>
          LET IsError(m) == m.importance = "ERROR"
          IN  CountIn(yielded, IsError) = 1 /\ calls = <<>>

(***************************************************************************)
(* C8. With both select and ignore given the run fails before any work:    *)
(* it never completes normally, no file is opened, no message is yielded   *)
(* and the configuration has changed no registered check.                  *)
(***************************************************************************)
C8_UsageErrorBeforeWork ==
    (~args.select.is_none /\ ~args.ignore.is_none) =>
        /\ pc # "done"
        /\ opened = {}
        /\ yielded = <<>>
        /\ available_checks = base_checks

(***************************************************************************)
(* C9. Every message inspect_nwb yields for a file (validation, failed     *)
(* read or check) carries that file's path in its file field.              *)
(***************************************************************************)
C9_EveryMessageStamped ==
    file_index > 0 =>
        \A k \in 1..Len(yielded) : yielded[k].file = CurrentFile

(***************************************************************************)
(* C10. At most one data file handle is open at any time; the only handle  *)
(* that can be open is that of the file being inspected, and it is         *)
(* released when inspect_nwb returns and when an error escapes.            *)
(***************************************************************************)
C10_OneHandleAtATime ==
    /\ Cardinality(handles) <= 1
    /\ handles # {} => file_index > 0 /\ handles = {CurrentFile}
    /\ pc \in {"call", "configure", "import", "loop", "options", "open", "done", "raised"}
          => handles = {}

\* the second file was opened after the first was released, its read failed
\* and the error escaped with the handle released
C10_Witness ==
    /\ pc = "raised"
    /\ raisedErr = "UnboundLocalError"
    /\ file_index = 2
    /\ Cardinality(opened) = 2
    /\ handles = {}

(***************************************************************************)
(* C11. In directory mode inspect_all processes the matching files in      *)
(* natural order, a smaller embedded number before a larger one: the list  *)
(* it walks holds exactly the files of the directory in ascending order of *)
(* their number, the files are opened one after the other in that order,   *)
(* and all messages of a file are yielded before any message of the next   *)
(* file; a call that ends normally has opened every file.                  *)
(***************************************************************************)
FilesUpTo(n) == {nwbfiles[k] : k \in 1..n}

C11_NaturalOrderFileByFile ==
    /\ \A a, b \in 1..Len(nwbfiles) : a < b => nwbfiles[a] < nwbfiles[b]
    /\ (pc # "call" /\ args.path.kind = "dir") => FilesUpTo(Len(nwbfiles)) = args.path.files
    /\ \A a, b \in 1..Len(emitted) : a < b => emitted[a] < emitted[b]
    /\ \A a \in 1..Len(emitted) : emitted[a] \in FilesUpTo(file_index)
    /\ file_index > 0 => FilesUpTo(file_index - 1) \subseteq opened
    /\ opened \subseteq FilesUpTo(file_index)
    /\ pc = "done" => opened = args.path.files

\* a directory holding f2.nwb and f10.nwb: messages of f2, then messages of f10
C11_Witness ==
    /\ pc = "done"
    /\ args.path.kind = "dir"
    /\ args.path.files = {2, 10}
    /\ emitted = <<2, 10>>

(***************************************************************************)
(* C12. run_checks does not treat a bare string a check returns as a       *)
(* sequence: a str it yields is a string a check returned, never one of    *)
(* the characters of such a string.                                        *)
(***************************************************************************)
IsStr(x) == "str" \in DOMAIN x

C12_BareStringNotIterated ==
    \A k \in 1..Len(Stream) :
        IsStr(Stream[k]) =>
            \E c \in 1..Len(calls) :
                calls[c].output.kind = "string" /\ calls[c].output.value = Stream[k]

(***************************************************************************)
(* C13. configure_checks fails for every config that does not have the     *)
(* expected shape (here: a key that is neither an importance name nor      *)
(* SKIP), whatever the base list is and whether or not a listed name       *)
(* matches a check: the call does not return, and it has changed the       *)
(* importance of no check.                                                 *)
(***************************************************************************)
Malformed(items) == \E k \in 1..Len(items) : items[k].importance_name \notin ConfigKeys

C13_MalformedConfigRejected ==
    (pc # "cfg_call" /\ Malformed(args.config.items)) =>
        /\ pc = "raised"
        /\ available_checks = base_checks

(***************************************************************************)
(* Helpers of the properties about inspect_all_cli.                        *)
(***************************************************************************)
\* json.dump raised: it is the only source of a TypeError when a json file
\* is asked for (messages it can write can also be organized)
JsonFailed == pc = "raised" /\ raisedErr = "TypeError" /\ cli_args.json_file_path

\* organize_messages_by_file has been called on a list that is not empty
OrganizeCalled ==
    /\ messages # <<>>
    /\ pc \notin {"cli_json", "cli_organize"}
    /\ ~JsonFailed

\* the places (file entry, bucket, rank) of the organized results
Places ==
    {p \in (1..Len(organized_results)) \X (1..Len(messages)) \X (1..Len(messages)) :
        /\ p[2] <= Len(organized_results[p[1]].buckets)
        /\ p[3] <= Len(organized_results[p[1]].buckets[p[2]].check_results)}

PlacedAt(p) == organized_results[p[1]].buckets[p[2]].check_results[p[3]]

\* position of a message in the input list (the texts make the messages distinct)
InputPosition(m) == CHOOSE k \in 1..Len(messages) : messages[k] = m

(***************************************************************************)
(* C14. organize_messages_by_file places every input message exactly once, *)
(* in the bucket of its own file and importance; within a file the buckets *)
(* are in descending order of importance value, and within a bucket the    *)
(* messages are in descending order of severity value, messages of equal   *)
(* severity in input order.                                                *)
(***************************************************************************)
C14_OrganizedByFile ==
    OrganizeCalled =>
        /\ \A k \in 1..Len(messages) :
              /\ Cardinality({p \in Places : PlacedAt(p) = messages[k]}) = 1
              /\ \A p \in Places :
                    PlacedAt(p) = messages[k] =>
                        /\ organized_results[p[1]].file = messages[k].file
                        /\ organized_results[p[1]].buckets[p[2]].importance
                              = messages[k].importance
        /\ Cardinality(Places) = Len(messages)
        /\ \A p, q \in Places :
              /\ (p[1] = q[1] /\ p[2] < q[2]) =>
                    organized_results[p[1]].buckets[p[2]].importance.value
                        > organized_results[q[1]].buckets[q[2]].importance.value
              /\ (p[1] = q[1] /\ p[2] = q[2] /\ p[3] < q[3]) =>
                    \/ PlacedAt(p).severity.value > PlacedAt(q).severity.value
                    \/ /\ PlacedAt(p).severity.value = PlacedAt(q).severity.value
                       /\ InputPosition(PlacedAt(p)) < InputPosition(PlacedAt(q))

\* the same for lists whose messages all carry a file: holds (not a claim)
OrganizedWhenStamped ==
    (\A k \in 1..Len(messages) : messages[k].file # NoFile) => C14_OrganizedByFile

(***************************************************************************)
(* C15. format_organized_results_output numbers every finding              *)
(* fileIndex.importanceIndex.checkIndex; a finding of an ERROR or          *)
(* PYNWB_VALIDATION bucket is rendered with the administrative template    *)
(* (object_type, location, rule, message; no object_name), a finding of    *)
(* any other bucket with the best-practice template, which also shows      *)
(* object_name.                                                            *)
(***************************************************************************)
Formatted == pc \in {"cli_report", "cli_done"} \/ (pc = "raised" /\ raisedErr = "FileExistsError")

IsFindingLine(l) == l.number # <<>>

ClaimedLine(p) ==
    LET r == PlacedAt(p)
    IN  IF organized_results[p[1]].buckets[p[2]].importance.name \in {"ERROR", "PYNWB_VALIDATION"}
        THEN [template |-> "administrative", number |-> <<p[1], p[2], p[3]>>, file |-> NoFile,
              fields |-> <<r.object_type, r.location, r.check_function_name, r.message>>]
        ELSE [template |-> "best_practice", number |-> <<p[1], p[2], p[3]>>, file |-> NoFile,
              fields |-> <<r.object_type, r.object_name, r.location,
                           r.check_function_name, r.message>>]

C15_NumberedAndTemplated ==
    Formatted =>
        LET findings == SelectSeq(formatted_results, IsFindingLine)
        IN  /\ Len(findings) = Cardinality(Places)
            /\ \A p \in Places : \E k \in 1..Len(findings) : findings[k] = ClaimedLine(p)

(***************************************************************************)
(* C16. save_report raises FileExistsError and leaves the file as it was   *)
(* when the destination exists and overwrite is not asked for; otherwise   *)
(* it raises nothing and the file then holds exactly the formatted lines,  *)
(* in order.                                                               *)
(***************************************************************************)
C16_SaveReportGuarded ==
    [][(pc = "cli_report" /\ cli_args.report_file_path) =>
          IF report_file.exists /\ ~cli_args.overwrite
          THEN /\ pc' = "raised"
               /\ raisedErr' = "FileExistsError"
               /\ report_file' = report_file
          ELSE /\ pc' = "cli_done"
               /\ raisedErr' = "none"
               /\ report_file'.exists
               /\ report_file'.content = formatted_results]_vars

\* an existing report was not overwritten: the error was raised and the old
\* content is still there
C16_Witness ==
    /\ pc = "raised"
    /\ raisedErr = "FileExistsError"
    /\ cli_args.report_file_path /\ ~cli_args.overwrite
    /\ formatted_results # <<>>
    /\ report_file = [exists |-> TRUE, content |-> OldReport]

(***************************************************************************)
(* C17. For every message the JSON export holds an object whose enum       *)
(* fields (importance, severity) are the names of the members, not their   *)
(* values, and looking the name up in the enum gives the original member.  *)
(***************************************************************************)
C17_EnumsExportedByName ==
    (cli_args.json_file_path /\ pc # "cli_json") =>
        /\ ~JsonFailed
        /\ Len(json_file) = Len(messages)
        /\ \A k \in 1..Len(json_file) :
              /\ json_file[k].importance = messages[k].importance.name
              /\ json_file[k].severity = messages[k].severity.name
              /\ ImportanceByName(json_file[k].importance) = messages[k].importance
              /\ SeverityByName(json_file[k].severity) = messages[k].severity

\* the same for what json.dump has written, whether it then failed or not:
\* holds (not a claim)
EnumsByNameInWhatIsWritten ==
    \A k \in 1..Len(json_file) :
        /\ json_file[k].importance = messages[k].importance.name
        /\ ImportanceByName(json_file[k].importance) = messages[k].importance
        /\ SeverityByName(json_file[k].severity) = messages[k].severity

(***************************************************************************)
(* C19. When select is given and ignore is not, the checks inspect_nwb     *)
(* hands to run_checks are exactly the threshold-passing checks whose name *)
(* is in select, for every select list, the empty one included (no check   *)
(* is run for it); when ignore is given, they are exactly the              *)
(* threshold-passing checks whose name is not in ignore.                   *)
(***************************************************************************)
ThresholdPassing == ThresholdChecks(ChecksList(checks))

NamedIn(list, names) ==
    LET Named(c) == available_checks[c].name \in names IN SelectSeq(list, Named)

NotNamedIn(list, names) ==
    LET Other(c) == available_checks[c].name \notin names IN SelectSeq(list, Other)

C19_SelectOrIgnoreExactly ==
    pc \in {"run", "checks"} =>
        /\ (~args.select.is_none /\ args.ignore.is_none) =>
              nwb_checks = NamedIn(ThresholdPassing, args.select.names)
        /\ (args.select.is_none /\ ~args.ignore.is_none) =>
              nwb_checks = NotNamedIn(ThresholdPassing, args.ignore.names)

\* the same with the empty select list left out: holds (not a claim)
SelectOrIgnoreExactlyUnlessEmpty ==
    pc \in {"run", "checks"} =>
        /\ (~args.select.is_none /\ args.ignore.is_none /\ args.select.names # {}) =>
              nwb_checks = NamedIn(ThresholdPassing, args.select.names)
        /\ (args.select.is_none /\ ~args.ignore.is_none) =>
              nwb_checks = NotNamedIn(ThresholdPassing, args.ignore.names)

(***************************************************************************)
(* C20. The checks registered by the modules inspect_all imports are among *)
(* the checks run on the files of that call, with and without a config:    *)
(* when a file has been inspected, every such check that has an object of  *)
(* a matching type in the file, passes select/ignore and reaches the       *)
(* threshold has been invoked.                                             *)
(***************************************************************************)
\* the checks of the catalog (by index) that the imported modules registered
ModuleRegistered ==
    {c \in 1..Len(available_checks) :
        \E i \in 1..Len(args.modules) :
            \E k \in 1..Len(ModuleChecks(args.modules[i])) :
                available_checks[c] = ModuleChecks(args.modules[i])[k]}

\* the check has an object of a matching type in the file that was read
HasObject(c) ==
    \E j \in 1..Len(nwbfile.objects) :
        available_checks[c].neurodata_type \in ClassesOf(nwbfile.objects[j])

Runnable(c) ==
    /\ HasObject(c)
    /\ PassesSelection(available_checks[c].name)
    /\ LevelRank(available_checks[c].importance) >= LevelRank(args.importance_threshold)

C20_ModuleChecksAreRun ==
    FileDone => \A c \in ModuleRegistered : Runnable(c) => c \in CalledChecks

\* the same for a call without a config: holds (not a claim)
ModuleChecksAreRunWithoutConfig ==
    (FileDone /\ args.config.is_none) =>
        \A c \in ModuleRegistered : Runnable(c) => c \in CalledChecks

\* a module's check was run on the file
ModuleCheckWasRun ==
    FileDone /\ \E c \in ModuleRegistered : Runnable(c) /\ c \in CalledChecks

(***************************************************************************)
(* C18. configure_checks writes the importance onto the registered check   *)
(* objects themselves: once a call whose config assigns check r the level  *)
(* L has been made, a later call of the process whose config does not      *)
(* mention r, or that has no config, sees r with importance L (no call in  *)
(* between having mentioned r), whatever importance r was registered with. *)
(***************************************************************************)
ConfigItems(config) == IF config.is_none THEN <<>> ELSE config.items

Mentions(config, n) == n \in NamedInConfig(ConfigItems(config))

Assigns(config, n, level) == ListedLevels(ConfigItems(config), n) = {level}

\* the call under way has its list of checks
Configured == pc \in {"import", "loop", "done"}

\* check r was assigned the level by earlier call k and no call since then,
\* the one under way included, mentions it
LeftBy(k, r, level) ==
    /\ Assigns(previous[k].config, available_checks[r].name, level)
    /\ \A j \in (k + 1)..Len(previous) :
          ~Mentions(previous[j].config, available_checks[r].name)
    /\ ~Mentions(args.config, available_checks[r].name)

C18_ImportanceOutlivesTheRun ==
    Configured =>
        \A r \in 1..Len(available_checks) :
            \A k \in 1..Len(previous) :
                \A level \in CheckImportances :
                    LeftBy(k, r, level) =>
                        /\ available_checks[r].importance = level
                        /\ \E i \in 1..Len(ChecksList(checks)) : ChecksList(checks)[i] = r

\* the third call, without a config, sees check_regular_timestamps as the
\* first call's config ranked it, not as it was registered; the second call
\* did not mention it
C18_Witness ==
    /\ Configured
    /\ Len(previous) = 2
    /\ args.config.is_none
    /\ LeftBy(1, 1, "CRITICAL")
    /\ RegisteredChecks[1].importance # "CRITICAL"
    /\ available_checks[1].importance = "CRITICAL"
    /\ ~previous[2].config.is_none

=============================================================================
